---- MODULE Spec2Model ----
(***************************************************************************)
(* A model of the VFC provider scripts: the remote query function          *)
(* (fetch_providers, in its two versions), the coverage planners with      *)
(* their merge step (extract_county_providers, get_all_providers), the     *)
(* county keyword filter, and the batch orchestrator                       *)
(* (extract_all_counties).                                                 *)
(*                                                                         *)
(* Text is a sequence of one-character strings, so that concatenation,     *)
(* upper-casing and substring search are computed, not assumed.            *)
(* A response body is a sequence of marker tokens: what the strict XML     *)
(* parser and the regular expressions of the tolerant path see of it.      *)
(***************************************************************************)
EXTENDS Integers, Sequences, FiniteSets, TLC

VARIABLES
    \* ---- one call of fetch_providers
    response,       \* what the remote endpoint answers to the request
    fetched,        \* the outcome of the call: which function, what it returned or raised
    n_requests,     \* requests.get calls issued by the call
    \* ---- one run of a coverage planner (extract_county_providers / get_all_providers)
    planner,        \* "county" (extract_county_providers), "state" (get_all_providers),
                    \* or "none" outside a planner run
    county_name,    \* the argument of extract_county_providers
    loc_i,          \* number of query points already queried
    queried,        \* the query points requested so far, in order
    all_providers,  \* the accumulation dict, in insertion order: <<[key, value]>>
    radius,         \* the radius argument of extract_county_providers
    arrivals,       \* history: the distinct records the queries returned, in order of
                    \* first arrival
    returned,       \* the planner's return value, once it has returned
    \* ---- one run of extract_all_counties
    pc,             \* where the batch run is
    county_i,       \* 1-based index of the county being (or next to be) processed
    output_folder,  \* whether the output folder exists
    files,          \* county -> state of its output file
    total_providers,
    successful_counties,
    failed_counties,
    results_summary,
    summary_file,   \* content of _summary.json, once written
    exit_code,      \* the process exit status, once the run has ended
    history         \* county -> what happened while it was processed

query_vars == <<response, fetched, n_requests>>
merge_vars == <<planner, county_name, radius, loc_i, queried, all_providers, arrivals,
               returned>>
batch_vars == <<pc, county_i, output_folder, files, total_providers, successful_counties,
                failed_counties, results_summary, summary_file, exit_code, history>>
vars == <<response, fetched, n_requests,
          planner, county_name, radius, loc_i, queried, all_providers, arrivals, returned,
          pc, county_i, output_folder, files, total_providers, successful_counties,
          failed_counties, results_summary, summary_file, exit_code, history>>

-----------------------------------------------------------------------------
(* Bounds of the model *)

\* markers in one response body
MaxMarkers == 2

\* rows of the county table the model keeps (the first rows of the source)
NumCounties == 3

-----------------------------------------------------------------------------
(* Text *)

LowerCase == <<"a","b","c","d","e","f","g","h","i","j","k","l","m",
               "n","o","p","q","r","s","t","u","v","w","x","y","z">>
UpperCase == <<"A","B","C","D","E","F","G","H","I","J","K","L","M",
               "N","O","P","Q","R","S","T","U","V","W","X","Y","Z">>
Digits    == <<"0","1","2","3","4","5","6","7","8","9">>

\* str.upper() on one character
upper_char(c) ==
    IF \E i \in DOMAIN LowerCase : LowerCase[i] = c
    THEN UpperCase[CHOOSE i \in DOMAIN LowerCase : LowerCase[i] = c]
    ELSE c

\* str.upper()
upper(s) == [i \in DOMAIN s |-> upper_char(s[i])]

\* str.lower() on one character
lower_char(c) ==
    IF \E i \in DOMAIN UpperCase : UpperCase[i] = c
    THEN LowerCase[CHOOSE i \in DOMAIN UpperCase : UpperCase[i] = c]
    ELSE c

\* str.lower()
lower(s) == [i \in DOMAIN s |-> lower_char(s[i])]

\* the characters of the model's texts in code point order
CodePoints == <<" ", ".">> \o Digits \o UpperCase \o <<"_">> \o LowerCase \o <<"|">>

code_point(c) == CHOOSE i \in DOMAIN CodePoints : CodePoints[i] = c

\* a < b for str: the first differing character decides, a proper prefix is less
RECURSIVE str_less(_, _)
str_less(a, b) ==
    IF b = <<>> THEN FALSE
    ELSE IF a = <<>> THEN TRUE
    ELSE IF Head(a) = Head(b) THEN str_less(Tail(a), Tail(b))
    ELSE code_point(Head(a)) < code_point(Head(b))

\* needle in hay
contains(hay, needle) ==
    \E i \in 0..(Len(hay) - Len(needle)) : SubSeq(hay, i + 1, i + Len(needle)) = needle

\* does float(text) succeed; the texts of the model are decimal integer
\* literals, the empty string and letters, on which this is Python's answer
float_ok(s) ==
    /\ Len(s) > 0
    /\ \A i \in DOMAIN s : \E d \in DOMAIN Digits : Digits[d] = s[i]

digit_val(c) == (CHOOSE d \in DOMAIN Digits : Digits[d] = c) - 1

RECURSIVE float_val(_)
float_val(s) ==
    IF Len(s) = 0 THEN 0
    ELSE 10 * float_val(SubSeq(s, 1, Len(s) - 1)) + digit_val(s[Len(s)])

-----------------------------------------------------------------------------
(* Response bodies *)

AttrNames == <<"name", "address", "phone", "type", "lat", "lng", "distance">>

\* one attribute of a marker as written: key, quote style ("dq" or "sq"), value
Attr(k, q, v) == [k |-> k, q |-> q, v |-> v]

\* a marker as written in the body. close is how its tag ends:
\*   "self"  <marker ... />   the form the endpoint is expected to send
\*   "open"  <marker ... >    the slash is missing
\*   "cut"   <marker ...      the tag is not ended at all
Marker(attrs, close) == [attrs |-> attrs, close |-> close]

\* the value of attribute k as the strict parser sees it (quotes of either
\* style delimit an attribute in XML), or default
get(attrs, k, default) ==
    IF \E i \in DOMAIN attrs : attrs[i].k = k
    THEN attrs[CHOOSE i \in DOMAIN attrs : attrs[i].k = k].v
    ELSE default

has(attrs, k) == \E i \in DOMAIN attrs : attrs[i].k = k

\* a response of the endpoint. status: "ok", or how the request failed.
\* junk: PHP warnings precede the document; decl: the document starts with
\* an <?xml declaration; empty: the body has no characters;
\* root_closed: the root element's closing tag is there.
Response(status, empty, junk, decl, markers, root_closed) ==
    [status |-> status, empty |-> empty, junk |-> junk, decl |-> decl,
     markers |-> markers, root_closed |-> root_closed]

\* the request never produced a body
FailedResponse(status) == Response(status, TRUE, FALSE, FALSE, <<>>, FALSE)

EmptyBody == Response("ok", TRUE, FALSE, FALSE, <<>>, FALSE)

-----------------------------------------------------------------------------
(* fetch_providers of vfc_cli.py *)

\* lines 91-95: when "<?xml" is found past the start, what precedes it is cut
strip_php_warnings(body) ==
    IF body.junk /\ body.decl THEN [body EXCEPT !.junk = FALSE] ELSE body

no_duplicate_attrs(attrs) ==
    \A i, j \in DOMAIN attrs : attrs[i].k = attrs[j].k => i = j

\* ET.fromstring accepts the text: a document, nothing before it, every
\* element closed, no attribute given twice
well_formed(body) ==
    /\ ~body.empty
    /\ ~body.junk
    /\ body.root_closed
    /\ \A i \in DOMAIN body.markers :
          /\ body.markers[i].close = "self"
          /\ no_duplicate_attrs(body.markers[i].attrs)

\* float(marker.get(k, 0)) is defined
numeric_ok(attrs, k) == has(attrs, k) => float_ok(get(attrs, k, <<>>))

numerics_ok(attrs) ==
    numeric_ok(attrs, "lat") /\ numeric_ok(attrs, "lng") /\ numeric_ok(attrs, "distance")

to_float(attrs, k) == IF has(attrs, k) THEN float_val(get(attrs, k, <<>>)) ELSE 0

\* the provider dict built from a marker's attributes
provider_of(attrs) ==
    [name     |-> get(attrs, "name", <<>>),
     address  |-> get(attrs, "address", <<>>),
     phone    |-> get(attrs, "phone", <<>>),
     type     |-> get(attrs, "type", <<>>),
     lat      |-> to_float(attrs, "lat"),
     lng      |-> to_float(attrs, "lng"),
     distance |-> to_float(attrs, "distance")]

\* the loop over root.findall('marker'): the first marker whose numeric
\* attribute float() rejects raises ValueError out of the loop
strict_providers(markers) ==
    IF \E i \in DOMAIN markers : ~numerics_ok(markers[i].attrs)
    THEN [exc |-> "ValueError", providers |-> <<>>]
    ELSE [exc |-> "none",
          providers |-> [i \in DOMAIN markers |-> provider_of(markers[i].attrs)]]

\* where a match of <marker\s+([^>]+)/> that starts at marker j ends: [^>]+
\* runs to the first ">" of the text, which must follow a "/". 0: no match
RECURSIVE match_end(_, _)
match_end(markers, j) ==
    IF markers[j].close = "self" THEN j
    ELSE IF markers[j].close = "open" \/ j = Len(markers) THEN 0
    ELSE match_end(markers, j + 1)

RECURSIVE concat_attrs(_, _, _)
concat_attrs(markers, j, e) ==
    IF j > e THEN <<>> ELSE markers[j].attrs \o concat_attrs(markers, j + 1, e)

\* re.findall(marker_pattern, content): the attribute text of each match,
\* left to right, matches not overlapping
RECURSIVE marker_matches(_, _)
marker_matches(markers, j) ==
    IF j > Len(markers) THEN <<>>
    ELSE LET e == match_end(markers, j)
         IN  IF e = 0 THEN marker_matches(markers, j + 1)
             ELSE <<concat_attrs(markers, j, e)>> \o marker_matches(markers, e + 1)

quoted(match, q) == SelectSeq(match, LAMBDA a : a.q = q)

keys_of(attrs) == {attrs[i].k : i \in DOMAIN attrs}

\* lines 123-135: the attrs dict of one match, as the list of assignments
\* made to it: the double-quoted ones, then, when they gave fewer than five
\* keys, the single-quoted ones
fallback_attrs(match) ==
    LET dq == quoted(match, "dq")
    IN  IF Cardinality(keys_of(dq)) < 5 THEN dq \o quoted(match, "sq") ELSE dq

\* attrs.get(k, default) after those assignments: the last one wins
get_last(attrs, k, default) ==
    IF \E i \in DOMAIN attrs : attrs[i].k = k
    THEN attrs[CHOOSE i \in DOMAIN attrs :
                   attrs[i].k = k /\ \A j \in DOMAIN attrs : attrs[j].k = k => j <= i].v
    ELSE default

fallback_numeric_ok(attrs, k) == has(attrs, k) => float_ok(get_last(attrs, k, <<>>))

fallback_float(attrs, k) ==
    IF has(attrs, k) THEN float_val(get_last(attrs, k, <<>>)) ELSE 0

fallback_provider(attrs) ==
    [name     |-> get_last(attrs, "name", <<>>),
     address  |-> get_last(attrs, "address", <<>>),
     phone    |-> get_last(attrs, "phone", <<>>),
     type     |-> get_last(attrs, "type", <<>>),
     lat      |-> fallback_float(attrs, "lat"),
     lng      |-> fallback_float(attrs, "lng"),
     distance |-> fallback_float(attrs, "distance")]

\* lines 137-150: a match with no attribute gives nothing; one whose numeric
\* attribute float() rejects is skipped (except ValueError: continue)
fallback_keeps(attrs) ==
    /\ attrs # <<>>
    /\ fallback_numeric_ok(attrs, "lat")
    /\ fallback_numeric_ok(attrs, "lng")
    /\ fallback_numeric_ok(attrs, "distance")

\* lines 115-150: the tolerant path
fallback_providers(body) ==
    LET matches == marker_matches(body.markers, 1)
        dicts   == [i \in DOMAIN matches |-> fallback_attrs(matches[i])]
        kept    == SelectSeq(dicts, fallback_keeps)
    IN  [i \in DOMAIN kept |-> fallback_provider(kept[i])]

\* lines 101-152: strict parsing, the tolerant path on ET.ParseError only
parse_providers(body) ==
    IF well_formed(body)
    THEN strict_providers(body.markers)
    ELSE [exc |-> "none", providers |-> fallback_providers(body)]

\* lines 87-88: requests.get and raise_for_status
RequestFailures == {"Timeout", "ConnectionError", "HTTPError"}

\* the body of the try statement, lines 87-152: what it returns or raises
fetch_try(resp) ==
    IF resp.status = "KeyboardInterrupt" \/ resp.status \in RequestFailures
    THEN [exc |-> resp.status, providers |-> <<>>]
    ELSE parse_providers(strip_php_warnings(resp))

\* a handler that catches the request's own failures only
except_request_exception(r) ==
    IF r.exc \in RequestFailures THEN [exc |-> "none", providers |-> <<>>] ELSE r

\* what except Exception (lines 153-155) makes of an outcome: a
\* KeyboardInterrupt is no Exception and goes on to the caller
except_exception(r) ==
    IF r.exc \in {"none", "KeyboardInterrupt"} THEN r
    ELSE [exc |-> "none", providers |-> <<>>]

\* fetch_providers(lat, lng, radius) against a remote that answers resp
fetch_providers(resp) == except_exception(fetch_try(resp))

-----------------------------------------------------------------------------
(* fetch_providers of scrape_vfc_providers.py *)

\* lines 39-58: response.content is parsed as it is; any failure raises
scrape_fetch_try(resp) ==
    IF resp.status = "KeyboardInterrupt" \/ resp.status \in RequestFailures
    THEN [exc |-> resp.status, providers |-> <<>>]
    ELSE IF well_formed(resp) THEN strict_providers(resp.markers)
    ELSE [exc |-> "ParseError", providers |-> <<>>]

\* lines 59-61
scrape_fetch_providers(resp) == except_exception(scrape_fetch_try(resp))

-----------------------------------------------------------------------------
(* The responses the query functions are run against *)

\* a marker with the attributes the endpoint sends. style "dq": every value
\* in double quotes; "sq": every value in single quotes; "mixed": the name
\* in single quotes, the rest in double quotes. lat "absent": no lat attribute
sample_attrs(nm, ad, ph, la, style) ==
    LET qn == IF style = "dq" THEN "dq" ELSE "sq"
        qo == IF style = "sq" THEN "sq" ELSE "dq"
    IN  <<Attr("name", qn, nm), Attr("address", qo, ad), Attr("phone", qo, ph),
          Attr("type", qo, <<"P">>)>>
        \o (IF la = "absent" THEN <<>>
            ELSE <<Attr("lat", qo, IF la = "good" THEN <<"3", "6">> ELSE <<"x">>)>>)
        \o <<Attr("lng", qo, <<"7">>), Attr("distance", qo, <<"2">>)>>

QueryMarkers ==
    {Marker(sample_attrs(nm, <<"C">>, <<"1">>, la, style), "self") :
        nm \in {<<"A">>, <<"B">>}, la \in {"good", "bad", "absent"},
        style \in {"dq", "sq", "mixed"}}
    \cup
    {Marker(sample_attrs(nm, <<"C">>, <<"1">>, "good", "dq"), close) :
        nm \in {<<"A">>, <<"B">>}, close \in {"open", "cut"}}

\* the sequences over S of length at most n
RECURSIVE seqs_upto(_, _)
seqs_upto(S, n) ==
    IF n = 0 THEN {<<>>}
    ELSE LET shorter == seqs_upto(S, n - 1)
         IN  shorter \cup {Append(q, x) : q \in shorter, x \in S}

DocumentShapes ==
    {[junk |-> FALSE, decl |-> TRUE], [junk |-> TRUE, decl |-> TRUE],
     [junk |-> TRUE, decl |-> FALSE]}

QueryResponses ==
    {FailedResponse(st) : st \in RequestFailures \cup {"KeyboardInterrupt"}}
    \cup {EmptyBody}
    \cup {Response("ok", FALSE, sh.junk, sh.decl, ms, rc) :
            sh \in DocumentShapes, ms \in seqs_upto(QueryMarkers, MaxMarkers),
            rc \in BOOLEAN}

NoCall == [fn |-> "none", exc |-> "none", providers |-> <<>>]

NotReturned == [done |-> FALSE, exc |-> "none", providers |-> <<>>]

\* a file that does not exist
NoFile == [state |-> "absent", content |-> <<>>]

\* the exit status while the process runs
Running == -1

-----------------------------------------------------------------------------
(* Rest values of the variables a specification leaves alone *)

QueryRest ==
    /\ response = EmptyBody
    /\ fetched = NoCall
    /\ n_requests = 0

MergeRest ==
    /\ planner = "none"
    /\ county_name = <<>>
    /\ radius = 0
    /\ loc_i = 0
    /\ queried = <<>>
    /\ all_providers = <<>>
    /\ arrivals = <<>>
    /\ returned = NotReturned

BatchRest ==
    /\ pc = "none"
    /\ county_i = 0
    /\ output_folder = FALSE
    /\ files = <<>>
    /\ total_providers = 0
    /\ successful_counties = 0
    /\ failed_counties = <<>>
    /\ results_summary = <<>>
    /\ summary_file = NoFile
    /\ exit_code = Running
    /\ history = <<>>

-----------------------------------------------------------------------------
(* One call of a query function *)

QueryInit ==
    /\ response \in QueryResponses
    /\ fetched = NoCall
    /\ n_requests = 0
    /\ MergeRest
    /\ BatchRest

\* vfc_cli.fetch_providers: one requests.get (line 87), then the outcome
CallFetchProviders ==
    /\ fetched = NoCall
    /\ LET r == fetch_providers(response)
       IN  fetched' = [fn |-> "vfc_cli", exc |-> r.exc, providers |-> r.providers]
    /\ n_requests' = n_requests + 1
    /\ UNCHANGED <<response, merge_vars, batch_vars>>

\* scrape_vfc_providers.fetch_providers: one requests.get (line 39)
CallScrapeFetchProviders ==
    /\ fetched = NoCall
    /\ LET r == scrape_fetch_providers(response)
       IN  fetched' = [fn |-> "scrape", exc |-> r.exc, providers |-> r.providers]
    /\ n_requests' = n_requests + 1
    /\ UNCHANGED <<response, merge_vars, batch_vars>>

QueryNext == CallFetchProviders \/ CallScrapeFetchProviders

SpecQuery == QueryInit /\ [][QueryNext]_vars

-----------------------------------------------------------------------------
(* The county table and the county grid (vfc_cli.py) *)

\* CALIFORNIA_COUNTIES, vfc_cli.py lines 17-76, in source order; coordinates in
\* units of 0.0001 degree
CountyRows ==
    <<
[name |-> <<"A", "l", "a", "m", "e", "d", "a">>, lat |-> 378044, lng |-> -1222712],
      [name |-> <<"A", "l", "p", "i", "n", "e">>, lat |-> 385961, lng |-> -1198104],
      [name |-> <<"A", "m", "a", "d", "o", "r">>, lat |-> 383485, lng |-> -1207705],
      [name |-> <<"B", "u", "t", "t", "e">>, lat |-> 397285, lng |-> -1218375],
      [name |-> <<"C", "a", "l", "a", "v", "e", "r", "a", "s">>, lat |-> 382039, lng |-> -1206803],
      [name |-> <<"C", "o", "l", "u", "s", "a">>, lat |-> 392138, lng |-> -1220084],
      [name |-> <<"C", "o", "n", "t", "r", "a", " ", "C", "o", "s", "t", "a">>, lat |-> 379358, lng |-> -1223477],
      [name |-> <<"D", "e", "l", " ", "N", "o", "r", "t", "e">>, lat |-> 417557, lng |-> -1242025],
      [name |-> <<"E", "l", " ", "D", "o", "r", "a", "d", "o">>, lat |-> 386778, lng |-> -1211750],
      [name |-> <<"F", "r", "e", "s", "n", "o">>, lat |-> 367378, lng |-> -1197871],
      [name |-> <<"G", "l", "e", "n", "n">>, lat |-> 395982, lng |-> -1223919],
      [name |-> <<"H", "u", "m", "b", "o", "l", "d", "t">>, lat |-> 408665, lng |-> -1240828],
      [name |-> <<"I", "m", "p", "e", "r", "i", "a", "l">>, lat |-> 328472, lng |-> -1155694],
      [name |-> <<"I", "n", "y", "o">>, lat |-> 365107, lng |-> -1170973],
      [name |-> <<"K", "e", "r", "n">>, lat |-> 353733, lng |-> -1190187],
      [name |-> <<"K", "i", "n", "g", "s">>, lat |-> 363275, lng |-> -1196457],
      [name |-> <<"L", "a", "k", "e">>, lat |-> 390442, lng |-> -1229124],
      [name |-> <<"L", "a", "s", "s", "e", "n">>, lat |-> 404163, lng |-> -1206530],
      [name |-> <<"L", "o", "s", " ", "A", "n", "g", "e", "l", "e", "s">>, lat |-> 340522, lng |-> -1182437],
      [name |-> <<"M", "a", "d", "e", "r", "a">>, lat |-> 371553, lng |-> -1197663],
      [name |-> <<"M", "a", "r", "i", "n">>, lat |-> 380834, lng |-> -1227633],
      [name |-> <<"M", "a", "r", "i", "p", "o", "s", "a">>, lat |-> 374849, lng |-> -1199663],
      [name |-> <<"M", "e", "n", "d", "o", "c", "i", "n", "o">>, lat |-> 391501, lng |-> -1232078],
      [name |-> <<"M", "e", "r", "c", "e", "d">>, lat |-> 373022, lng |-> -1204829],
      [name |-> <<"M", "o", "d", "o", "c">>, lat |-> 414479, lng |-> -1204677],
      [name |-> <<"M", "o", "n", "o">>, lat |-> 379396, lng |-> -1190023],
      [name |-> <<"M", "o", "n", "t", "e", "r", "e", "y">>, lat |-> 366002, lng |-> -1218946],
      [name |-> <<"N", "a", "p", "a">>, lat |-> 382975, lng |-> -1222869],
      [name |-> <<"N", "e", "v", "a", "d", "a">>, lat |-> 392618, lng |-> -1210182],
      [name |-> <<"O", "r", "a", "n", "g", "e">>, lat |-> 337879, lng |-> -1178531],
      [name |-> <<"P", "l", "a", "c", "e", "r">>, lat |-> 389544, lng |-> -1210972],
      [name |-> <<"P", "l", "u", "m", "a", "s">>, lat |-> 400390, lng |-> -1208415],
      [name |-> <<"R", "i", "v", "e", "r", "s", "i", "d", "e">>, lat |-> 339533, lng |-> -1173962],
      [name |-> <<"S", "a", "c", "r", "a", "m", "e", "n", "t", "o">>, lat |-> 385816, lng |-> -1214944],
      [name |-> <<"S", "a", "n", " ", "B", "e", "n", "i", "t", "o">>, lat |-> 368527, lng |-> -1214014],
      [name |-> <<"S", "a", "n", " ", "B", "e", "r", "n", "a", "r", "d", "i", "n", "o">>, lat |-> 341083, lng |-> -1172898],
      [name |-> <<"S", "a", "n", " ", "D", "i", "e", "g", "o">>, lat |-> 327157, lng |-> -1171611],
      [name |-> <<"S", "a", "n", " ", "F", "r", "a", "n", "c", "i", "s", "c", "o">>, lat |-> 377749, lng |-> -1224194],
      [name |-> <<"S", "a", "n", " ", "J", "o", "a", "q", "u", "i", "n">>, lat |-> 379537, lng |-> -1212908],
      [name |-> <<"S", "a", "n", " ", "L", "u", "i", "s", " ", "O", "b", "i", "s", "p", "o">>, lat |-> 352828, lng |-> -1206596],
      [name |-> <<"S", "a", "n", " ", "M", "a", "t", "e", "o">>, lat |-> 375629, lng |-> -1223255],
      [name |-> <<"S", "a", "n", "t", "a", " ", "B", "a", "r", "b", "a", "r", "a">>, lat |-> 344208, lng |-> -1196982],
      [name |-> <<"S", "a", "n", "t", "a", " ", "C", "l", "a", "r", "a">>, lat |-> 373541, lng |-> -1219552],
      [name |-> <<"S", "a", "n", "t", "a", " ", "C", "r", "u", "z">>, lat |-> 369741, lng |-> -1220308],
      [name |-> <<"S", "h", "a", "s", "t", "a">>, lat |-> 405865, lng |-> -1223917],
      [name |-> <<"S", "i", "e", "r", "r", "a">>, lat |-> 396240, lng |-> -1205170],
      [name |-> <<"S", "i", "s", "k", "i", "y", "o", "u">>, lat |-> 417375, lng |-> -1226344],
      [name |-> <<"S", "o", "l", "a", "n", "o">>, lat |-> 382494, lng |-> -1220409],
      [name |-> <<"S", "o", "n", "o", "m", "a">>, lat |-> 382919, lng |-> -1224580],
      [name |-> <<"S", "t", "a", "n", "i", "s", "l", "a", "u", "s">>, lat |-> 376387, lng |-> -1209967],
      [name |-> <<"S", "u", "t", "t", "e", "r">>, lat |-> 391404, lng |-> -1216199],
      [name |-> <<"T", "e", "h", "a", "m", "a">>, lat |-> 401785, lng |-> -1222358],
      [name |-> <<"T", "r", "i", "n", "i", "t", "y">>, lat |-> 407381, lng |-> -1230203],
      [name |-> <<"T", "u", "l", "a", "r", "e">>, lat |-> 362077, lng |-> -1193471],
      [name |-> <<"T", "u", "o", "l", "u", "m", "n", "e">>, lat |-> 379847, lng |-> -1203821],
      [name |-> <<"V", "e", "n", "t", "u", "r", "a">>, lat |-> 342746, lng |-> -1192290],
      [name |-> <<"Y", "o", "l", "o">>, lat |-> 385419, lng |-> -1217398],
      [name |-> <<"Y", "u", "b", "a">>, lat |-> 391404, lng |-> -1216199]>>


\* the county table of the model
CALIFORNIA_COUNTIES == SubSeq(CountyRows, 1, NumCounties)

county_names == {CALIFORNIA_COUNTIES[i].name : i \in DOMAIN CALIFORNIA_COUNTIES}

county_row(name) ==
    CALIFORNIA_COUNTIES[CHOOSE i \in DOMAIN CALIFORNIA_COUNTIES :
                            CALIFORNIA_COUNTIES[i].name = name]

\* a grid whose last point repeats the first offset
offsets_repeated ==
    <<<<500, 0>>, <<-500, 0>>, <<0, 500>>, <<0, -500>>,
      <<500, 500>>, <<500, -500>>, <<-500, 500>>, <<500, 0>>>>

\* lines 262-271, in units of 0.0001 degree
offsets ==
    <<<<500, 0>>, <<-500, 0>>, <<0, 500>>, <<0, -500>>,
      <<500, 500>>, <<500, -500>>, <<-500, 500>>, <<-500, -500>>>>

\* get_county_search_locations, lines 246-276
get_county_search_locations(name) ==
    IF name \notin county_names THEN <<>>
    ELSE LET base == county_row(name)
         IN  <<<<base.lat, base.lng>>>>
             \o [i \in DOMAIN offsets |->
                    <<base.lat + offsets[i][1], base.lng + offsets[i][2]>>]

-----------------------------------------------------------------------------
(* The merge step (vfc_cli.py lines 308-314, scrape_vfc_providers.py 72-76) *)

\* f"{provider['name']}|{provider['address']}"
provider_key(provider) == provider.name \o <<"|">> \o provider.address

key_in(key, dict) == \E i \in DOMAIN dict : dict[i].key = key

\* an insertion that does not look whether the key is there already
merge_always(dict, provider) ==
    Append(dict, [key |-> provider_key(provider), value |-> provider])

\* an insertion that replaces the record stored under the key
merge_last_wins(dict, provider) ==
    IF key_in(provider_key(provider), dict)
    THEN [i \in DOMAIN dict |->
            IF dict[i].key = provider_key(provider)
            THEN [key |-> dict[i].key, value |-> provider] ELSE dict[i]]
    ELSE Append(dict, [key |-> provider_key(provider), value |-> provider])

\* if key not in all_providers: all_providers[key] = provider
merge_one(dict, provider) ==
    IF key_in(provider_key(provider), dict) THEN dict
    ELSE Append(dict, [key |-> provider_key(provider), value |-> provider])

\* for provider in providers: ...
RECURSIVE merge_providers(_, _)
merge_providers(dict, providers) ==
    IF providers = <<>> THEN dict
    ELSE merge_providers(merge_one(dict, Head(providers)), Tail(providers))

\* list(all_providers.values())
dict_values(dict) == [i \in DOMAIN dict |-> dict[i].value]

-----------------------------------------------------------------------------
(* filter_by_county and the 50% guard (vfc_cli.py) *)

\* county_to_cities, vfc_cli.py lines 164-179
county_to_cities ==
    <<
[county |-> <<"A", "l", "a", "m", "e", "d", "a">>,
       cities |-> <<<<"A", "l", "a", "m", "e", "d", "a">>, <<"O", "a", "k", "l", "a", "n", "d">>, <<"B", "e", "r", "k", "e", "l", "e", "y">>, <<"F", "r", "e", "m", "o", "n", "t">>>>],
      [county |-> <<"C", "o", "n", "t", "r", "a", " ", "C", "o", "s", "t", "a">>,
       cities |-> <<<<"C", "o", "n", "t", "r", "a", " ", "C", "o", "s", "t", "a">>, <<"M", "a", "r", "t", "i", "n", "e", "z">>, <<"R", "i", "c", "h", "m", "o", "n", "d">>, <<"C", "o", "n", "c", "o", "r", "d">>, <<"P", "l", "e", "a", "s", "a", "n", "t", " ", "H", "i", "l", "l">>>>],
      [county |-> <<"F", "r", "e", "s", "n", "o">>,
       cities |-> <<<<"F", "r", "e", "s", "n", "o">>, <<"C", "l", "o", "v", "i", "s">>, <<"S", "a", "n", "g", "e", "r">>>>],
      [county |-> <<"K", "e", "r", "n">>,
       cities |-> <<<<"K", "e", "r", "n">>, <<"B", "a", "k", "e", "r", "s", "f", "i", "e", "l", "d">>>>],
      [county |-> <<"L", "o", "s", " ", "A", "n", "g", "e", "l", "e", "s">>,
       cities |-> <<<<"L", "o", "s", " ", "A", "n", "g", "e", "l", "e", "s">>, <<"L", "A">>, <<"L", ".", "A", ".">>, <<"B", "e", "v", "e", "r", "l", "y", " ", "H", "i", "l", "l", "s">>, <<"L", "o", "n", "g", " ", "B", "e", "a", "c", "h">>, <<"P", "a", "s", "a", "d", "e", "n", "a">>>>],
      [county |-> <<"O", "r", "a", "n", "g", "e">>,
       cities |-> <<<<"O", "r", "a", "n", "g", "e">>, <<"S", "a", "n", "t", "a", " ", "A", "n", "a">>, <<"A", "n", "a", "h", "e", "i", "m">>, <<"I", "r", "v", "i", "n", "e">>, <<"H", "u", "n", "t", "i", "n", "g", "t", "o", "n", " ", "B", "e", "a", "c", "h">>>>],
      [county |-> <<"R", "i", "v", "e", "r", "s", "i", "d", "e">>,
       cities |-> <<<<"R", "i", "v", "e", "r", "s", "i", "d", "e">>, <<"P", "a", "l", "m", " ", "S", "p", "r", "i", "n", "g", "s">>, <<"M", "o", "r", "e", "n", "o", " ", "V", "a", "l", "l", "e", "y">>, <<"C", "o", "r", "o", "n", "a">>>>],
      [county |-> <<"S", "a", "c", "r", "a", "m", "e", "n", "t", "o">>,
       cities |-> <<<<"S", "a", "c", "r", "a", "m", "e", "n", "t", "o">>, <<"F", "o", "l", "s", "o", "m">>, <<"E", "l", "k", " ", "G", "r", "o", "v", "e">>>>],
      [county |-> <<"S", "a", "n", " ", "B", "e", "r", "n", "a", "r", "d", "i", "n", "o">>,
       cities |-> <<<<"S", "a", "n", " ", "B", "e", "r", "n", "a", "r", "d", "i", "n", "o">>, <<"F", "o", "n", "t", "a", "n", "a">>, <<"R", "a", "n", "c", "h", "o", " ", "C", "u", "c", "a", "m", "o", "n", "g", "a">>, <<"O", "n", "t", "a", "r", "i", "o">>>>],
      [county |-> <<"S", "a", "n", " ", "D", "i", "e", "g", "o">>,
       cities |-> <<<<"S", "a", "n", " ", "D", "i", "e", "g", "o">>, <<"C", "h", "u", "l", "a", " ", "V", "i", "s", "t", "a">>, <<"O", "c", "e", "a", "n", "s", "i", "d", "e">>>>],
      [county |-> <<"S", "a", "n", " ", "F", "r", "a", "n", "c", "i", "s", "c", "o">>,
       cities |-> <<<<"S", "a", "n", " ", "F", "r", "a", "n", "c", "i", "s", "c", "o">>, <<"S", "F">>>>],
      [county |-> <<"S", "a", "n", " ", "J", "o", "a", "q", "u", "i", "n">>,
       cities |-> <<<<"S", "a", "n", " ", "J", "o", "a", "q", "u", "i", "n">>, <<"S", "t", "o", "c", "k", "t", "o", "n">>, <<"L", "o", "d", "i">>, <<"T", "r", "a", "c", "y">>>>],
      [county |-> <<"S", "a", "n", "t", "a", " ", "C", "l", "a", "r", "a">>,
       cities |-> <<<<"S", "a", "n", "t", "a", " ", "C", "l", "a", "r", "a">>, <<"S", "a", "n", " ", "J", "o", "s", "e">>, <<"S", "u", "n", "n", "y", "v", "a", "l", "e">>, <<"P", "a", "l", "o", " ", "A", "l", "t", "o">>, <<"C", "u", "p", "e", "r", "t", "i", "n", "o">>, <<"M", "o", "u", "n", "t", "a", "i", "n", " ", "V", "i", "e", "w">>>>],
      [county |-> <<"S", "t", "a", "n", "i", "s", "l", "a", "u", "s">>,
       cities |-> <<<<"S", "t", "a", "n", "i", "s", "l", "a", "u", "s">>, <<"M", "o", "d", "e", "s", "t", "o">>, <<"T", "u", "r", "l", "o", "c", "k">>, <<"C", "e", "r", "e", "s">>>>]>>


in_county_to_cities(name) == \E i \in DOMAIN county_to_cities : county_to_cities[i].county = name

cities_of(name) ==
    county_to_cities[CHOOSE i \in DOMAIN county_to_cities :
                         county_to_cities[i].county = name].cities

\* str.replace(old, new): the occurrences of old, left to right, not overlapping
RECURSIVE replace(_, _, _)
replace(s, old, new) ==
    IF Len(s) < Len(old) \/ old = <<>> THEN s
    ELSE IF SubSeq(s, 1, Len(old)) = old
         THEN new \o replace(SubSeq(s, Len(old) + 1, Len(s)), old, new)
         ELSE <<Head(s)>> \o replace(Tail(s), old, new)

\* lines 182-188
county_keywords(name) ==
    IF in_county_to_cities(name)
    THEN <<name>> \o cities_of(name)
    ELSE <<name, replace(name, <<" ", "C", "o", "u", "n", "t", "y">>, <<>>)>>

\* a match that compares the address and the keywords as they are spelled
matches_county_cased(provider, keywords) ==
    \E k \in DOMAIN keywords : contains(provider.address, keywords[k])

\* lines 192-194
matches_county(provider, keywords) ==
    \E k \in DOMAIN keywords : contains(upper(provider.address), upper(keywords[k]))

\* filter_by_county, lines 157-197
filter_by_county(providers, name) ==
    SelectSeq(providers, LAMBDA p : matches_county(p, county_keywords(name)))

\* a guard that keeps the filtered list only when it is more than half
filter_guard_strict(providers_list, filtered) ==
    IF 2 * Len(filtered) > Len(providers_list) THEN filtered ELSE providers_list

\* no guard: the filtered list, whatever is left of it
filter_guard_none(providers_list, filtered) == filtered

\* lines 334-340: len(filtered) >= len(providers_list) * 0.5
filter_guard(providers_list, filtered) ==
    IF 2 * Len(filtered) >= Len(providers_list) THEN filtered ELSE providers_list

\* lines 323-342: what extract_county_providers returns once the grid is done
county_result(dict, name) ==
    LET providers_list == dict_values(dict)
    IN  IF providers_list = <<>> THEN <<>>
        ELSE filter_guard(providers_list, filter_by_county(providers_list, name))

-----------------------------------------------------------------------------
(* The state-wide planner's table (scrape_vfc_providers.py) *)

\* CALIFORNIA_LOCATIONS, scrape_vfc_providers.py lines 11-28, same units
CALIFORNIA_LOCATIONS ==
    <<<<374419, -1215419>>,
      <<340522, -1182437>>,
      <<327157, -1171611>>,
      <<385816, -1214944>>,
      <<377749, -1224194>>,
      <<361699, -1151398>>,
      <<353733, -1190187>>,
      <<385407, -1217584>>,
      <<369750, -1220306>>,
      <<339533, -1173962>>,
      <<340689, -1184452>>,
      <<373382, -1218863>>,
      <<405865, -1223917>>,
      <<352828, -1206596>>,
      <<367372, -1197871>>,
      <<336846, -1178265>>>>

\* line 82: the scan from the centre of the state
state_centre == <<367783, -1194179>>

-----------------------------------------------------------------------------
(* A run of a coverage planner *)

\* the records the planners' queries return come from these markers
MergeMarkers ==
    {Marker(sample_attrs(<<"A", "|", "B">>, <<"C">>, <<"1">>, "good", "dq"), "self"),
     Marker(sample_attrs(<<"A">>, <<"B", "|", "C">>, <<"1">>, "good", "dq"), "self"),
     Marker(sample_attrs(<<"A">>, <<"o", "a", "k", "l", "a", "n", "d">>, <<"1">>, "good", "dq"),
            "self"),
     Marker(sample_attrs(<<"A">>, <<"o", "a", "k", "l", "a", "n", "d">>, <<"2">>, "good", "dq"),
            "self"),
     Marker(sample_attrs(<<"D">>, <<"A", "L", "P", "I", "N", "E">>, <<"1">>, "good", "dq"),
            "self")}

MergeResponses ==
    {FailedResponse("Timeout"), FailedResponse("KeyboardInterrupt")}
    \cup {Response("ok", FALSE, FALSE, TRUE, ms, TRUE) :
            ms \in seqs_upto(MergeMarkers, MaxMarkers)}

\* what fetch_providers (vfc_cli.py) makes of each of these responses
county_fetches == {fetch_providers(resp) : resp \in MergeResponses}

\* what fetch_providers (scrape_vfc_providers.py) makes of each of them
state_fetches == {scrape_fetch_providers(resp) : resp \in MergeResponses}

\* a county name that is not in the table
UnknownCounty == <<"A", "t", "l", "a", "n", "t", "i", "s">>

\* the radius arguments the callers pass: the default of
\* extract_county_providers and the default of the batch run
Radii == {100, 200}

\* history: the records of providers not yet in arrivals, appended in order
RECURSIVE record_arrivals(_, _)
record_arrivals(arr, providers) ==
    IF providers = <<>> THEN arr
    ELSE record_arrivals(
            IF \E i \in DOMAIN arr : arr[i] = Head(providers) THEN arr
            ELSE Append(arr, Head(providers)),
            Tail(providers))

MergeInit ==
    /\ planner \in {"county", "state"}
    /\ IF planner = "county"
       THEN county_name \in county_names \cup {UnknownCounty} /\ radius \in Radii
       ELSE county_name = <<>> /\ radius = 0
    /\ loc_i = 0
    /\ queried = <<>>
    /\ all_providers = <<>>
    /\ arrivals = <<>>
    /\ returned = NotReturned
    /\ QueryRest
    /\ BatchRest

\* extract_county_providers, lines 284-286: an unknown county, no query
ExtractUnknownCounty ==
    /\ planner = "county"
    /\ ~returned.done
    /\ county_name \notin county_names
    /\ returned' = [done |-> TRUE, exc |-> "none", providers |-> <<>>]
    /\ UNCHANGED <<planner, county_name, radius, loc_i, queried, all_providers, arrivals,
                   query_vars, batch_vars>>

\* one turn of the loop of lines 303-321: the query of the next grid point
\* and the merge of what it returned; a KeyboardInterrupt out of the query
\* ends the function
ExtractQuery ==
    /\ planner = "county"
    /\ ~returned.done
    /\ county_name \in county_names
    /\ loc_i < Len(get_county_search_locations(county_name))
    /\ \E r \in county_fetches :
          LET point == get_county_search_locations(county_name)[loc_i + 1]
          IN  /\ queried' = Append(queried, <<point[1], point[2], radius>>)
              /\ IF r.exc = "none"
                 THEN /\ all_providers' = merge_providers(all_providers, r.providers)
                      /\ arrivals' = record_arrivals(arrivals, r.providers)
                      /\ loc_i' = loc_i + 1
                      /\ UNCHANGED returned
                 ELSE /\ returned' = [done |-> TRUE, exc |-> r.exc, providers |-> <<>>]
                      /\ UNCHANGED <<all_providers, arrivals, loc_i>>
    /\ UNCHANGED <<planner, county_name, radius, query_vars, batch_vars>>

\* a return that gives up once a grid point has been queried and nothing
\* has been found yet
ExtractReturnEarly ==
    /\ planner = "county"
    /\ ~returned.done
    /\ county_name \in county_names
    /\ \/ loc_i = Len(get_county_search_locations(county_name))
       \/ loc_i >= 1 /\ all_providers = <<>>
    /\ returned' = [done |-> TRUE, exc |-> "none",
                    providers |-> county_result(all_providers, county_name)]
    /\ UNCHANGED <<planner, county_name, radius, loc_i, queried, all_providers, arrivals,
                   query_vars, batch_vars>>

\* lines 323-342: after the last grid point, the keyword filter and its guard
ExtractReturn ==
    /\ planner = "county"
    /\ ~returned.done
    /\ county_name \in county_names
    /\ loc_i = Len(get_county_search_locations(county_name))
    /\ returned' = [done |-> TRUE, exc |-> "none",
                    providers |-> county_result(all_providers, county_name)]
    /\ UNCHANGED <<planner, county_name, radius, loc_i, queried, all_providers, arrivals,
                   query_vars, batch_vars>>

\* get_all_providers, lines 68-78: one turn of the loop over CALIFORNIA_LOCATIONS
StateQuery ==
    /\ planner = "state"
    /\ ~returned.done
    /\ loc_i < Len(CALIFORNIA_LOCATIONS)
    /\ \E r \in state_fetches :
          LET point == CALIFORNIA_LOCATIONS[loc_i + 1]
          IN  /\ queried' = Append(queried, <<point[1], point[2], 500>>)
              /\ IF r.exc = "none"
                 THEN /\ all_providers' = merge_providers(all_providers, r.providers)
                      /\ arrivals' = record_arrivals(arrivals, r.providers)
                      /\ loc_i' = loc_i + 1
                      /\ UNCHANGED returned
                 ELSE /\ returned' = [done |-> TRUE, exc |-> r.exc, providers |-> <<>>]
                      /\ UNCHANGED <<all_providers, arrivals, loc_i>>
    /\ UNCHANGED <<planner, county_name, radius, query_vars, batch_vars>>

\* get_all_providers, lines 80-88: the scan from the state centre, its merge,
\* and the return of the dict's values
StateCentreAndReturn ==
    /\ planner = "state"
    /\ ~returned.done
    /\ loc_i = Len(CALIFORNIA_LOCATIONS)
    /\ \E r \in state_fetches :
              /\ queried' = Append(queried, <<state_centre[1], state_centre[2], 1000>>)
              /\ IF r.exc = "none"
                 THEN /\ all_providers' = merge_providers(all_providers, r.providers)
                      /\ arrivals' = record_arrivals(arrivals, r.providers)
                      /\ loc_i' = loc_i + 1
                      /\ returned' =
                            [done |-> TRUE, exc |-> "none",
                             providers |->
                                dict_values(merge_providers(all_providers, r.providers))]
                 ELSE /\ returned' = [done |-> TRUE, exc |-> r.exc, providers |-> <<>>]
                      /\ UNCHANGED <<all_providers, arrivals, loc_i>>
    /\ UNCHANGED <<planner, county_name, radius, query_vars, batch_vars>>

MergeNext ==
    \/ ExtractUnknownCounty
    \/ ExtractQuery
    \/ ExtractReturn
    \/ StateQuery
    \/ StateCentreAndReturn

SpecMerge == MergeInit /\ [][MergeNext]_vars

-----------------------------------------------------------------------------
(* extract_county_providers as the batch run calls it *)

\* the loop of lines 303-321 over the answers of the grid points, then lines
\* 323-342; an exception out of a query ends the function
RECURSIVE scan_grid(_, _, _)
scan_grid(name, dict, answers) ==
    IF answers = <<>>
    THEN [exc |-> "none", providers |-> county_result(dict, name)]
    ELSE IF Head(answers).exc # "none"
         THEN [exc |-> Head(answers).exc, providers |-> <<>>]
         ELSE scan_grid(name, merge_providers(dict, Head(answers).providers), Tail(answers))

\* extract_county_providers(name, radius) when the grid's queries are
\* answered, in order, by answers
extract_county_providers(name, answers) ==
    IF name \notin county_names THEN [exc |-> "none", providers |-> <<>>]
    ELSE scan_grid(name, <<>>, answers)

-----------------------------------------------------------------------------
(* The batch run (batch_extract_all_counties.py) *)

\* the default of --radius, line 36
default_radius == 200

\* str.replace on single characters
replace_char(s, old, new) == [i \in DOMAIN s |-> IF s[i] = old THEN new ELSE s[i]]

\* line 28: county_name.replace(' ', '_').lower() + '.json'
file_name(name) == lower(replace_char(name, " ", "_")) \o <<".", "j", "s", "o", "n">>

RECURSIVE sorted(_)
\* sorted(keys): the least name first
sorted(names) ==
    IF names = {} THEN <<>>
    ELSE LET least == CHOOSE n \in names : \A m \in names : m = n \/ str_less(n, m)
         IN  <<least>> \o sorted(names \ {least})

\* line 52
counties == sorted(county_names)

\* how a call of save_county_json can end. effect: "written" (the file
\* holds the dumped list), "untouched" (open failed, or the interrupt came
\* before it), "truncated" (open succeeded, the dump did not finish)
SaveOutcomes ==
    {[exc |-> "none", effect |-> "written"],
     [exc |-> "OSError", effect |-> "untouched"],
     [exc |-> "OSError", effect |-> "truncated"],
     [exc |-> "KeyboardInterrupt", effect |-> "untouched"],
     [exc |-> "KeyboardInterrupt", effect |-> "truncated"]}

\* the call of save_county_json that was not reached
NotSaved == [exc |-> "none", effect |-> "untouched"]

\* the county's file after save_county_json(providers, ...) ended with outcome
save_county_json(file, providers, outcome) ==
    IF outcome.effect = "written" THEN [state |-> "written", content |-> providers]
    ELSE IF outcome.effect = "truncated" THEN [state |-> "truncated", content |-> <<>>]
    ELSE file

\* the records the batch run's queries return come from these markers
BatchMarkers ==
    {Marker(sample_attrs(<<"A">>, <<"o", "a", "k", "l", "a", "n", "d">>, <<"1">>, "good", "dq"),
            "self"),
     Marker(sample_attrs(<<"D">>, <<"A", "L", "P", "I", "N", "E">>, <<"1">>, "good", "dq"),
            "self")}

batch_fetches ==
    {fetch_providers(resp) :
        resp \in {FailedResponse("Timeout"), FailedResponse("KeyboardInterrupt")}
                 \cup {Response("ok", FALSE, FALSE, TRUE, ms, TRUE) :
                         ms \in seqs_upto(BatchMarkers, MaxMarkers)}}

\* the answers of a county's grid points: the centre's, and one for the rest
grid_answers(name) ==
    {[i \in DOMAIN get_county_search_locations(name) |-> IF i = 1 THEN a ELSE b] :
        a \in batch_fetches, b \in batch_fetches}

\* how the call of line 67 can end for each county: what the function makes
\* of the answers, or an exception of its own
extract_outcomes ==
    [i \in DOMAIN counties |->
        {extract_county_providers(counties[i], answers) : answers \in grid_answers(counties[i])}
        \cup {[exc |-> "Exception", providers |-> <<>>]}]

\* what has happened to a county that has not been processed
NotProcessed == [extract |-> "none", n |-> 0, save |-> "none", handler |-> "none"]

BatchInit ==
    /\ pc = "start"
    /\ county_i = 0
    /\ radius = default_radius
    /\ output_folder = FALSE
    /\ files = [i \in DOMAIN counties |-> NoFile]
    /\ total_providers = 0
    /\ successful_counties = 0
    /\ failed_counties = <<>>
    /\ results_summary = <<>>
    /\ summary_file = NoFile
    /\ exit_code = Running
    /\ history = [i \in DOMAIN counties |-> NotProcessed]
    /\ QueryRest
    /\ planner = "none"
    /\ county_name = <<>>
    /\ loc_i = 0
    /\ queried = <<>>
    /\ all_providers = <<>>
    /\ arrivals = <<>>
    /\ returned = NotReturned

batch_rest == <<query_vars, planner, county_name, radius, loc_i, queried, all_providers,
                arrivals, returned>>

\* the exit status of a process ended by an exception nobody caught: 1, and
\* for a KeyboardInterrupt 1 or 130 with the interpreter's version
uncaught_status(exc) == IF exc = "KeyboardInterrupt" THEN {1, 130} ELSE {1}

\* how the process ends on an exception nobody caught: interrupted by the
\* user, or crashed
uncaught_end(exc) == IF exc = "KeyboardInterrupt" THEN "interrupted" ELSE "crashed"

\* lines 47-58: the output folder, the sorted county list, the counters.
\* mkdir can fail: nothing catches that
CreateOutputFolder ==
    /\ pc = "start"
    /\ \E exc \in {"none", "OSError", "KeyboardInterrupt"} :
          IF exc = "none"
          THEN /\ output_folder' = TRUE
               /\ pc' = "loop"
               /\ county_i' = 1
               /\ UNCHANGED exit_code
          ELSE /\ pc' = uncaught_end(exc)
               /\ exit_code' \in uncaught_status(exc)
               /\ UNCHANGED <<output_folder, county_i>>
    /\ UNCHANGED <<files, total_providers, successful_counties, failed_counties,
                   results_summary, summary_file, history, batch_rest>>

\* a handler that records a county that an earlier statement has recorded
county_failed_twice(failed, name) == Append(Append(failed, name), name)

\* line 109
county_failed(failed, name) == Append(failed, name)

\* an iteration that saves the providers and leaves total_providers alone
CountySavedUntotalled ==
    /\ pc = "loop"
    /\ county_i <= Len(counties)
    /\ \E x \in extract_outcomes[county_i] :
          /\ x.exc = "none"
          /\ x.providers # <<>>
          /\ files' = [files EXCEPT ![county_i] =
                          save_county_json(@, x.providers,
                                           [exc |-> "none", effect |-> "written"])]
          /\ successful_counties' = successful_counties + 1
          /\ results_summary' = Append(results_summary,
                                       [county |-> counties[county_i],
                                        providers |-> Len(x.providers),
                                        file |-> file_name(counties[county_i])])
          /\ history' = [history EXCEPT ![county_i] =
                            [extract |-> "returned", n |-> Len(x.providers),
                             save |-> "written", handler |-> "none"]]
    /\ county_i' = county_i + 1
    /\ UNCHANGED <<pc, output_folder, total_providers, failed_counties, summary_file,
                   exit_code, batch_rest>>

\* an iteration that found providers and saved them: lines 67-89
CountySaved ==
    /\ pc = "loop"
    /\ county_i <= Len(counties)
    /\ \E x \in extract_outcomes[county_i] :
          /\ x.exc = "none"
          /\ x.providers # <<>>
          /\ files' = [files EXCEPT ![county_i] =
                          save_county_json(@, x.providers,
                                           [exc |-> "none", effect |-> "written"])]
          /\ total_providers' = total_providers + Len(x.providers)
          /\ successful_counties' = successful_counties + 1
          /\ results_summary' = Append(results_summary,
                                       [county |-> counties[county_i],
                                        providers |-> Len(x.providers),
                                        file |-> file_name(counties[county_i])])
          /\ history' = [history EXCEPT ![county_i] =
                            [extract |-> "returned", n |-> Len(x.providers),
                             save |-> "written", handler |-> "none"]]
    /\ county_i' = county_i + 1
    /\ UNCHANGED <<pc, output_folder, failed_counties, summary_file, exit_code, batch_rest>>

\* an iteration that found nothing and saved the empty list: lines 67, 90-100
CountyNoData ==
    /\ pc = "loop"
    /\ county_i <= Len(counties)
    /\ \E x \in extract_outcomes[county_i] :
          /\ x.exc = "none"
          /\ x.providers = <<>>
    /\ files' = [files EXCEPT ![county_i] =
                    save_county_json(@, <<>>, [exc |-> "none", effect |-> "written"])]
    /\ results_summary' = Append(results_summary,
                                 [county |-> counties[county_i], providers |-> 0,
                                  file |-> file_name(counties[county_i])])
    /\ failed_counties' = Append(failed_counties, counties[county_i])
    /\ history' = [history EXCEPT ![county_i] =
                      [extract |-> "returned", n |-> 0, save |-> "written",
                       handler |-> "none"]]
    /\ county_i' = county_i + 1
    /\ UNCHANGED <<pc, output_folder, total_providers, successful_counties, summary_file,
                   exit_code, batch_rest>>

\* an iteration in which the call of line 67 raised an exception, or the
\* save of line 71 or 93 did: the handler of lines 107-114, whose own save
\* may end in any way, and the next county
CountyFailed ==
    /\ pc = "loop"
    /\ county_i <= Len(counties)
    /\ \E x \in extract_outcomes[county_i], sv \in SaveOutcomes \cup {NotSaved},
          hs \in SaveOutcomes :
          /\ x.exc # "KeyboardInterrupt"
          /\ x.exc = "none" => sv.exc = "OSError"
          /\ x.exc # "none" => sv = NotSaved
          /\ files' = [files EXCEPT ![county_i] =
                          save_county_json(save_county_json(@, x.providers, sv), <<>>, hs)]
          /\ history' = [history EXCEPT ![county_i] =
                            [extract |-> IF x.exc = "none" THEN "returned" ELSE x.exc,
                             n |-> Len(x.providers),
                             save |-> IF x.exc = "none" THEN sv.exc ELSE "none",
                             handler |-> IF hs.exc = "none" THEN "written" ELSE hs.exc]]
    /\ failed_counties' = county_failed(failed_counties, counties[county_i])
    /\ county_i' = county_i + 1
    /\ UNCHANGED <<pc, output_folder, total_providers, successful_counties, results_summary,
                   summary_file, exit_code, batch_rest>>

\* an iteration interrupted in the call of line 67 or in the save of line 71
\* or 93: lines 102-105, sys.exit(1)
CountyInterrupted ==
    /\ pc = "loop"
    /\ county_i <= Len(counties)
    /\ \E x \in extract_outcomes[county_i], sv \in SaveOutcomes \cup {NotSaved} :
          /\ x.exc \in {"none", "KeyboardInterrupt"}
          /\ x.exc = "none" => sv.exc = "KeyboardInterrupt"
          /\ x.exc # "none" => sv = NotSaved
          /\ files' = [files EXCEPT ![county_i] = save_county_json(@, x.providers, sv)]
          /\ history' = [history EXCEPT ![county_i] =
                            [extract |-> IF x.exc = "none" THEN "returned" ELSE x.exc,
                             n |-> Len(x.providers),
                             save |-> IF x.exc = "none" THEN sv.exc ELSE "none",
                             handler |-> "none"]]
    /\ pc' = "exited"
    /\ exit_code' = 1
    /\ UNCHANGED <<county_i, output_folder, total_providers, successful_counties,
                   failed_counties, results_summary, summary_file, batch_rest>>

\* lines 118-146, after the last county: the summary file. Its write can
\* fail: nothing catches that
WriteSummary ==
    /\ pc = "loop"
    /\ county_i > Len(counties)
    /\ \E sv \in SaveOutcomes :
          /\ summary_file' =
                save_county_json(summary_file,
                                 [total_counties |-> Len(counties),
                                  successful_counties |-> successful_counties,
                                  failed_counties |-> Len(failed_counties),
                                  total_providers |-> total_providers,
                                  search_radius |-> radius,
                                  results |-> results_summary],
                                 sv)
          /\ IF sv.exc = "none"
             THEN pc' = "done" /\ exit_code' = 0
             ELSE pc' = uncaught_end(sv.exc) /\ exit_code' \in uncaught_status(sv.exc)
    /\ UNCHANGED <<county_i, output_folder, files, total_providers, successful_counties,
                   failed_counties, results_summary, history, batch_rest>>

Next ==
    \/ CreateOutputFolder
    \/ CountySaved
    \/ CountyNoData
    \/ CountyFailed
    \/ CountyInterrupted
    \/ WriteSummary

Spec == BatchInit /\ [][Next]_vars

-----------------------------------------------------------------------------
(* Properties of the query functions (checked under SpecQuery) *)

Called == fetched.fn # "none"

\* the text the called function hands to the strict parser
parsed_text == IF fetched.fn = "vfc_cli" THEN strip_php_warnings(response) ELSE response

GotBody == response.status = "ok"

StrictFails == GotBody /\ ~well_formed(parsed_text)

all_self_closed(markers) == \A i \in DOMAIN markers : markers[i].close = "self"

no_self_closed(markers) == \A i \in DOMAIN markers : markers[i].close # "self"

\* the number a numeric attribute stands for, 0 when it is missing or no number
expected_float(attrs, k) ==
    IF has(attrs, k) /\ float_ok(get(attrs, k, <<>>)) THEN float_val(get(attrs, k, <<>>)) ELSE 0

C8_NumericDefaultsToZero ==
    (/\ Called
     /\ GotBody
     /\ fetched.fn = "scrape" => well_formed(response)
     /\ all_self_closed(response.markers))
    => /\ Len(fetched.providers) = Len(response.markers)
       /\ \A i \in DOMAIN response.markers :
             /\ fetched.providers[i].lat = expected_float(response.markers[i].attrs, "lat")
             /\ fetched.providers[i].lng = expected_float(response.markers[i].attrs, "lng")
             /\ fetched.providers[i].distance
                    = expected_float(response.markers[i].attrs, "distance")

\* C9: whenever strict parsing of the body fails, the query function (either
\* version) returns what the tolerant extraction recovers from the body.
C9_FallbackOnStrictFailure ==
    (Called /\ StrictFails) => fetched.providers = fallback_providers(response)

\* C10: from a body the strict parser rejects, vfc_cli's fetch_providers
\* returns, for every marker ended by "/>" whose name and address are in
\* double quotes, a record with that name and that address.
C10_FallbackRecoversNameAddress ==
    (fetched.fn = "vfc_cli" /\ StrictFails)
    => \A i \in DOMAIN response.markers :
          LET m == response.markers[i]
          IN  (/\ m.close = "self"
               /\ \E a \in DOMAIN m.attrs : m.attrs[a].k = "name" /\ m.attrs[a].q = "dq"
               /\ \E a \in DOMAIN m.attrs : m.attrs[a].k = "address" /\ m.attrs[a].q = "dq")
              => \E j \in DOMAIN fetched.providers :
                    /\ fetched.providers[j].name = get(m.attrs, "name", <<>>)
                    /\ fetched.providers[j].address = get(m.attrs, "address", <<>>)

-----------------------------------------------------------------------------
(* Properties of the merge step and of the filter guard (checked under SpecMerge) *)

same_pair(p, q) == p.name = q.name /\ p.address = q.address

no_duplicate_pair(providers) ==
    \A i, j \in DOMAIN providers : same_pair(providers[i], providers[j]) => i = j

\* the planner returned a list
ReturnedList == returned.done /\ returned.exc = "none"

\* C1: the merged list (the dict's values, and the list a planner returns)
\* holds no two entries with the same (name, address) pair.
C1_NoDuplicatePair ==
    /\ no_duplicate_pair(dict_values(all_providers))
    /\ ReturnedList => no_duplicate_pair(returned.providers)

\* one query returned two different records with the same name and address,
\* and the dict holds one record
C1_Witness ==
    /\ loc_i = 1
    /\ Len(arrivals) = 2
    /\ arrivals[1] # arrivals[2]
    /\ same_pair(arrivals[1], arrivals[2])
    /\ Len(all_providers) = 1

\* C2: two records are merged if and only if their (name, address) pairs are
\* identical: no pair is stored twice, and every pair a query returned is the
\* pair of a stored record.
C2_MergedIffIdenticalPair ==
    /\ no_duplicate_pair(dict_values(all_providers))
    /\ \A a \in DOMAIN arrivals :
          \E i \in DOMAIN all_providers : same_pair(all_providers[i].value, arrivals[a])

\* the first record with this key that any query returned
first_arrival(key) ==
    arrivals[CHOOSE a \in DOMAIN arrivals :
                 /\ provider_key(arrivals[a]) = key
                 /\ \A b \in DOMAIN arrivals : provider_key(arrivals[b]) = key => a <= b]

\* C3: for every key, the stored record is the first record with that key in
\* query order, whatever arrived under the key later; the state-wide planner
\* returns exactly the stored records.
C3_FirstSeenWins ==
    /\ \A a \in DOMAIN arrivals : key_in(provider_key(arrivals[a]), all_providers)
    /\ \A i \in DOMAIN all_providers :
          /\ all_providers[i].key = provider_key(all_providers[i].value)
          /\ all_providers[i].value = first_arrival(all_providers[i].key)
    /\ (ReturnedList /\ planner = "state") => returned.providers = dict_values(all_providers)

\* a later query returned another record under a key already stored
C3_Witness ==
    /\ loc_i >= 2
    /\ Len(all_providers) = 1
    /\ Len(arrivals) = 2
    /\ arrivals[2] # arrivals[1]
    /\ provider_key(arrivals[2]) = provider_key(arrivals[1])
    /\ all_providers[1].value = arrivals[1]

\* C4: extract_county_providers never returns fewer than half of the merged
\* set: the merged set itself when the filtered set is less than half of it,
\* the filtered set otherwise (exactly half included).
C4_FilterGuard ==
    (ReturnedList /\ planner = "county" /\ county_name \in county_names)
    => LET merged   == dict_values(all_providers)
           filtered == filter_by_county(merged, county_name)
       IN  /\ 2 * Len(returned.providers) >= Len(merged)
           /\ 2 * Len(filtered) < Len(merged) => returned.providers = merged
           /\ 2 * Len(filtered) >= Len(merged) => returned.providers = filtered

\* the filter kept one record of three and the three are returned
C4_Witness ==
    /\ ReturnedList
    /\ planner = "county"
    /\ Len(all_providers) = 3
    /\ Len(filter_by_county(dict_values(all_providers), county_name)) = 1
    /\ returned.providers = dict_values(all_providers)

-----------------------------------------------------------------------------
(* Properties of the batch run (checked under Spec) *)

\* processing county i raised an exception: the query did, or the save of
\* the county's file did
raised(i) == history[i].extract = "Exception" \/ history[i].save = "OSError"

\* county i's providers were found and saved
populated(i) == history[i].extract = "returned" /\ history[i].n > 0 /\ history[i].save = "written"

\* an interrupt came while county i was handled
interrupted(i) ==
    \/ history[i].extract = "KeyboardInterrupt"
    \/ history[i].save = "KeyboardInterrupt"
    \/ history[i].handler = "KeyboardInterrupt"

times_in(seq, x) == Cardinality({k \in DOMAIN seq : seq[k] = x})

\* C5: when processing a county raises an exception, the exception is caught:
\* the county is marked failed (once, and not counted as a success), its file
\* holds the empty list, and the loop goes on to the next county. A finished
\* run in which every county either raised or was saved with providers has
\* one file per county, populated for the saved ones and empty for the failed
\* ones, and its summary counts exactly the saved counties as successful and
\* the raising ones as failed.
C5_FailedCountyGetsEmptyFile ==
    /\ \A i \in DOMAIN counties :
          raised(i) =>
             /\ county_i > i
             /\ pc \in {"loop", "done", "exited", "crashed", "interrupted"}
             /\ times_in(failed_counties, counties[i]) = 1
             /\ \A k \in DOMAIN results_summary : results_summary[k].county # counties[i]
             /\ files[i] = [state |-> "written", content |-> <<>>]
    /\ ( /\ pc = "done"
         /\ \A i \in DOMAIN counties : populated(i) \/ raised(i) )
       => /\ \A i \in DOMAIN counties :
                /\ files[i].state = "written"
                /\ populated(i) <=> files[i].content # <<>>
          /\ summary_file.state = "written"
          /\ summary_file.content.successful_counties =
                Cardinality({i \in DOMAIN counties : populated(i)})
          /\ summary_file.content.failed_counties =
                Cardinality({i \in DOMAIN counties : raised(i)})
          /\ exit_code = 0

\* C6: an interrupt that comes while a county is handled (in the query, in
\* the save of the county's file, or in the handler's save of the empty file)
\* ends the batch at once: no later county is processed, no summary file is
\* written, and the exit status is not zero.
C6_InterruptAbortsBatch ==
    \A i \in DOMAIN counties :
       interrupted(i) =>
          /\ pc = "exited"
          /\ exit_code \notin {Running, 0}
          /\ county_i = i
          /\ \A j \in DOMAIN counties : j > i => history[j] = NotProcessed
          /\ summary_file = NoFile

-----------------------------------------------------------------------------
(* Properties of the planners' query plans (checked under SpecMerge) *)

\* the eight neighbours of a point at 0.05 degree: north, south, east, west
\* and the four diagonals
neighbours(lat, lng) ==
    {<<lat + dy, lng + dx>> : dy \in {-500, 0, 500}, dx \in {-500, 0, 500}} \ {<<lat, lng>>}

\* C11: for every county of the table get_county_search_locations returns
\* nine points, the county's reference coordinate first, then its eight
\* neighbours at 0.05 degree (cardinal and diagonal), all nine distinct; for a
\* name that is not in the table it returns the empty list. The points a
\* county run has queried are the first points of that list.
C11_NineGridPoints ==
    /\ \A name \in county_names :
          LET grid == get_county_search_locations(name)
              base == county_row(name)
          IN  /\ Len(grid) = 9
              /\ grid[1] = <<base.lat, base.lng>>
              /\ {grid[i] : i \in 2..9} = neighbours(base.lat, base.lng)
              /\ \A i, j \in 1..9 : i # j => grid[i] # grid[j]
    /\ get_county_search_locations(UnknownCounty) = <<>>
    /\ planner = "county" =>
          /\ Len(queried) <= Len(get_county_search_locations(county_name))
          /\ \A i \in DOMAIN queried :
                <<queried[i][1], queried[i][2]>> = get_county_search_locations(county_name)[i]

\* a county run that has queried the whole grid of its county
C11_Witness ==
    /\ planner = "county"
    /\ county_name \in county_names
    /\ Len(queried) = 9
    /\ <<queried[9][1], queried[9][2]>> \in
          neighbours(county_row(county_name).lat, county_row(county_name).lng)

\* the first n points of a county's grid, each with the radius of the run
grid_plan(name, r, n) ==
    [i \in 1..n |-> <<get_county_search_locations(name)[i][1],
                      get_county_search_locations(name)[i][2], r>>]

\* C12: a run of extract_county_providers for a known county queries the grid
\* points in grid order, each once, at the radius of the call, and goes on to
\* the next point whatever a query returned (records, nothing, or nothing
\* because the request failed); it returns only after the ninth point, and
\* what it returns is the filter's verdict on the dict merged from all nine.
C12_WholeGridBeforeFilter ==
    (planner = "county" /\ county_name \in county_names) =>
       /\ Len(queried) <= 9
       /\ queried = grid_plan(county_name, radius, Len(queried))
       /\ ~returned.done => loc_i = Len(queried)
       /\ (returned.done /\ returned.exc = "none") =>
             /\ Len(queried) = 9
             /\ loc_i = 9
             /\ returned.providers = county_result(all_providers, county_name)

\* a run that returned after nine queries none of which brought a record
C12_Witness ==
    /\ planner = "county"
    /\ county_name \in county_names
    /\ returned.done
    /\ returned.exc = "none"
    /\ arrivals = <<>>
    /\ queried = grid_plan(county_name, radius, 9)

\* the points of the state-wide plan: the city table, then the state centre
state_points == CALIFORNIA_LOCATIONS \o <<state_centre>>

\* C13: get_all_providers issues one query for each point of the city table,
\* in table order, then one from the state centre, all of them at one radius,
\* the one its caller configured, and it issues every one of them whatever
\* the earlier ones returned.
C13_StatePlanAtCallerRadius ==
    planner = "state" =>
       /\ Len(queried) <= Len(state_points)
       /\ \A i \in DOMAIN queried : <<queried[i][1], queried[i][2]>> = state_points[i]
       /\ (returned.done /\ returned.exc = "none") => Len(queried) = Len(state_points)
       /\ \A i, j \in DOMAIN queried : queried[i][3] = queried[j][3]

-----------------------------------------------------------------------------
(* One call of filter_by_county (vfc_cli.py lines 157-197) *)

\* the county_name arguments of the calls: a county of the lookup table, one
\* that is not in it, one whose keyword is an abbreviation, and a name that
\* carries the word County
FilterNames ==
    {<<"A", "l", "a", "m", "e", "d", "a">>,
     <<"A", "l", "p", "i", "n", "e">>,
     <<"L", "o", "s", " ", "A", "n", "g", "e", "l", "e", "s">>,
     <<"A", "l", "p", "i", "n", "e", " ", "C", "o", "u", "n", "t", "y">>}

\* the records of the providers argument come from these markers
FilterMarkers ==
    {Marker(sample_attrs(<<"A">>, ad, <<"1">>, "good", "dq"), "self") :
        ad \in {<<"o", "a", "k", "l", "a", "n", "d">>,
                <<"A", "L", "P", "I", "N", "E">>,
                <<"A", "l", "p", "i", "n", "e", " ", "C", "o">>,
                <<"C">>}}

\* the providers arguments: what fetch_providers returns for documents of
\* these markers
filter_inputs ==
    {fetch_providers(Response("ok", FALSE, FALSE, TRUE, ms, TRUE)).providers :
        ms \in seqs_upto(FilterMarkers, MaxMarkers)}

FilterInit ==
    /\ planner = "filter"
    /\ county_name \in FilterNames
    /\ \E ps \in filter_inputs :
          fetched = [fn |-> "vfc_cli", exc |-> "none", providers |-> ps]
    /\ returned = NotReturned
    /\ response = EmptyBody
    /\ n_requests = 0
    /\ radius = 0
    /\ loc_i = 0
    /\ queried = <<>>
    /\ all_providers = <<>>
    /\ arrivals = <<>>
    /\ BatchRest

\* filter_by_county(providers, county_name) on the fetched list
CallFilterByCounty ==
    /\ planner = "filter"
    /\ ~returned.done
    /\ returned' = [done |-> TRUE, exc |-> "none",
                    providers |-> filter_by_county(fetched.providers, county_name)]
    /\ UNCHANGED <<query_vars, planner, county_name, radius, loc_i, queried, all_providers,
                   arrivals, batch_vars>>

FilterNext == CallFilterByCounty

SpecFilter == FilterInit /\ [][FilterNext]_vars

-----------------------------------------------------------------------------
(* Properties of the keyword filter (checked under SpecFilter) *)

\* needle occurs in hay when letter case is ignored
occurs_ignoring_case(hay, needle) ==
    \E s \in 0..(Len(hay) - Len(needle)) :
       \A j \in 1..Len(needle) : lower_char(hay[s + j]) = lower_char(needle[j])

\* the keywords the filter is to use for the names of FilterNames: the name,
\* and the listed cities of a county of the lookup table or else the name
\* without the word County
expected_keywords(name) ==
    {name}
    \cup (IF in_county_to_cities(name)
          THEN {cities_of(name)[i] : i \in DOMAIN cities_of(name)}
          ELSE IF name = <<"A", "l", "p", "i", "n", "e", " ", "C", "o", "u", "n", "t", "y">>
               THEN {<<"A", "l", "p", "i", "n", "e">>}
               ELSE {name})

\* the positions of the input records that are to be kept
kept_positions(providers, name) ==
    {i \in DOMAIN providers :
        \E k \in expected_keywords(name) : occurs_ignoring_case(providers[i].address, k)}

\* C14: filter_by_county returns the input records whose address contains,
\* letter case ignored, the county name or a listed city of the county (for a
\* county of the lookup table), or the county name or the name without the
\* word County (for any other county): those records, unaltered, in input
\* order, and nothing else.
C14_FilterKeepsExactlyMatches ==
    (planner = "filter" /\ returned.done) =>
       LET kept == kept_positions(fetched.providers, county_name)
       IN  /\ Len(returned.providers) = Cardinality(kept)
           /\ \A n \in DOMAIN returned.providers :
                 \E i \in kept :
                    /\ Cardinality({j \in kept : j < i}) = n - 1
                    /\ returned.providers[n] = fetched.providers[i]

\* a call for a name with the word County that kept a record whose address
\* spells the bare name in capitals and dropped another record
C14_Witness ==
    /\ planner = "filter"
    /\ returned.done
    /\ county_name = <<"A", "l", "p", "i", "n", "e", " ", "C", "o", "u", "n", "t", "y">>
    /\ Len(fetched.providers) = 2
    /\ Len(returned.providers) = 1
    /\ returned.providers[1].address = <<"A", "L", "P", "I", "N", "E">>

-----------------------------------------------------------------------------
(* Properties of the batch run's files and counters (checked under Spec) *)

\* the batch run was not interrupted
not_interrupted == \A i \in DOMAIN counties : ~interrupted(i)

\* county i has been processed
processed(i) == history[i] # NotProcessed

\* the county list is the table's names, each once, in ascending order
counties_in_order ==
    /\ Len(counties) = Cardinality(county_names)
    /\ {counties[i] : i \in DOMAIN counties} = county_names
    /\ \A i, j \in DOMAIN counties : i < j => str_less(counties[i], counties[j])

\* the file names of all the names of the source's table: the name in lower
\* case with an underscore for every space, then .json; no two the same
file_names_in_form ==
    /\ \A r \in DOMAIN CountyRows :
          LET name == CountyRows[r].name
              fname == file_name(name)
          IN  /\ Len(fname) = Len(name) + 5
              /\ SubSeq(fname, Len(name) + 1, Len(name) + 5) = <<".", "j", "s", "o", "n">>
              /\ \A k \in DOMAIN name :
                    fname[k] = IF name[k] = " " THEN "_" ELSE lower_char(name[k])
              /\ \A k \in DOMAIN name : fname[k] \notin {UpperCase[u] : u \in DOMAIN UpperCase}
    /\ \A r, q \in DOMAIN CountyRows :
          r # q => file_name(CountyRows[r].name) # file_name(CountyRows[q].name)

\* the counties are processed in the list's order, each at most once
processed_in_order ==
    /\ counties_in_order
    /\ pc \in {"loop", "done", "exited"} =>
          \A i \in DOMAIN counties :
             processed(i) <=> (i < county_i \/ (pc = "exited" /\ i = county_i))

\* C16: a batch run that was not interrupted has processed every
\* county once, in ascending order of name, and when it has ended every
\* county has its file: its providers when some were found, the empty list
\* on failure or no data.
C16_EveryCountyHasItsFile ==
    /\ processed_in_order
    /\ file_names_in_form
    /\ (pc = "done" /\ not_interrupted) =>
          \A i \in DOMAIN counties :
             /\ processed(i)
             /\ files[i].state = "written"
             /\ files[i].content # <<>> <=> populated(i)

\* C17: no exception other than a user interrupt ends a batch run: the run
\* never crashes, whether the exception comes from a query, from the write of
\* a county's file, from the creation of the output folder or from the write
\* of the summary; the county concerned counts for zero results and the run
\* goes on to its end, where the summary is written.
C17_OnlyInterruptIsFatal ==
    /\ pc # "crashed"
    /\ pc = "done" => summary_file.state = "written"
    /\ \A i \in DOMAIN counties :
          raised(i) =>
             /\ county_i > i
             /\ \A k \in DOMAIN results_summary : results_summary[k].county # counties[i]

\* the counties whose iteration is over
iterated == {i \in DOMAIN counties : i < county_i}

\* C18: at every boundary between iterations each county processed so far
\* has been counted once: as successful (its providers were saved) or in
\* failed_counties (no data, or an exception out of the query or out of a
\* save), never both and never twice. A finished run's summary has
\* successful_counties + failed_counties = total_counties.
C18_EachCountyCountedOnce ==
    /\ pc \in {"loop", "done"} =>
          /\ successful_counties = Cardinality({i \in iterated : populated(i)})
          /\ \A i \in iterated :
                times_in(failed_counties, counties[i]) = IF populated(i) THEN 0 ELSE 1
          /\ \A i \in DOMAIN counties \ iterated :
                times_in(failed_counties, counties[i]) = 0
          /\ successful_counties + Len(failed_counties) = Cardinality(iterated)
    /\ pc = "done" =>
          /\ summary_file.state = "written"
          /\ summary_file.content.successful_counties + summary_file.content.failed_counties
                = summary_file.content.total_counties
          /\ summary_file.content.total_counties = Cardinality(county_names)

\* a finished run with a saved county, a county without data and a county
\* whose save raised
C18_Witness ==
    /\ pc = "done"
    /\ \E i, j, k \in DOMAIN counties :
          /\ populated(i)
          /\ history[j].extract = "returned" /\ history[j].n = 0 /\ history[j].save = "written"
          /\ history[k].save = "OSError" /\ history[k].n > 0
    /\ summary_file.content.successful_counties = 1
    /\ summary_file.content.failed_counties = Len(counties) - 1

\* the sum of the providers counts of the first n entries
RECURSIVE providers_sum(_, _)
providers_sum(entries, n) ==
    IF n = 0 THEN 0 ELSE entries[n].providers + providers_sum(entries, n - 1)

\* C19: at every boundary between iterations total_providers is the sum of
\* the providers counts of the entries of results_summary, and
\* successful_counties is the number of entries with providers > 0; a county
\* whose processing raised an exception is in failed_counties and has no
\* entry in results_summary. The summary file carries these values.
C19_TotalsMatchEntries ==
    /\ pc \in {"loop", "done"} =>
          /\ total_providers = providers_sum(results_summary, Len(results_summary))
          /\ successful_counties =
                Cardinality({k \in DOMAIN results_summary : results_summary[k].providers > 0})
          /\ \A i \in iterated :
                raised(i) =>
                   /\ \E k \in DOMAIN failed_counties : failed_counties[k] = counties[i]
                   /\ \A k \in DOMAIN results_summary :
                         results_summary[k].county # counties[i]
    /\ pc = "done" =>
          /\ summary_file.content.total_providers =
                providers_sum(summary_file.content.results,
                              Len(summary_file.content.results))
          /\ summary_file.content.successful_counties =
                Cardinality({k \in DOMAIN summary_file.content.results :
                                summary_file.content.results[k].providers > 0})

\* the state after a saved county, a county without data and a county whose
\* query raised
C19_Witness ==
    /\ pc = "loop"
    /\ total_providers >= 2
    /\ \E k \in DOMAIN results_summary : results_summary[k].providers = 0
    /\ \E k \in DOMAIN results_summary : results_summary[k].providers > 0
    /\ \E i \in iterated : history[i].extract = "Exception"

-----------------------------------------------------------------------------
(* The result of a county run (checked under SpecMerge) *)

\* sub is what is left of full when some of its elements are taken out
RECURSIVE is_sublist(_, _)
is_sublist(sub, full) ==
    IF sub = <<>> THEN TRUE
    ELSE IF full = <<>> THEN FALSE
    ELSE IF Head(sub) = Head(full) THEN is_sublist(Tail(sub), Tail(full))
    ELSE is_sublist(sub, Tail(full))

\* C20: extract_county_providers returns the empty list exactly when the
\* county is unknown (and then no query was issued) or none of the nine
\* queries returned a record; when the merged dict is not empty the returned
\* list is not empty and is a sub-list of the dict's values, so the keyword
\* filter never empties the result of a county with data.
C20_EmptyOnlyWithoutData ==
    (planner = "county" /\ returned.done /\ returned.exc = "none") =>
       /\ county_name \notin county_names => (queried = <<>> /\ returned.providers = <<>>)
       /\ returned.providers = <<>> <=> (county_name \notin county_names \/ arrivals = <<>>)
       /\ all_providers # <<>> =>
             /\ returned.providers # <<>>
             /\ is_sublist(returned.providers, dict_values(all_providers))
       /\ county_name \in county_names => (arrivals = <<>> <=> all_providers = <<>>)

\* a county run whose records all fail the keyword filter and that returned
\* them all the same
C20_Witness ==
    /\ planner = "county"
    /\ returned.done
    /\ returned.exc = "none"
    /\ all_providers # <<>>
    /\ filter_by_county(dict_values(all_providers), county_name) = <<>>
    /\ returned.providers = dict_values(all_providers)

====
